---- MODULE Spec2Model ----
(***************************************************************************)
(* A model of checkpy.py: the command-line front end (main), the warning   *)
(* registry IGNORE_PEP, the pre-flight check_sanity, and check(), which    *)
(* collects the '.py' files and runs pylint and pycodestyle on each.       *)
(*                                                                         *)
(* Python strings are TLA+ strings; endswith, split, strip and join are    *)
(* computed character by character with Len, SubSeq and \o.                *)
(***************************************************************************)
EXTENDS Integers, Sequences, FiniteSets, TLC

(***************************************************************************)
(* Bounds of the model.                                                    *)
(***************************************************************************)
\* the largest number of paths on the command line
MaxArgs == 2

\* Body applied to the value of v.  An operator's argument and a LET
\* definition stand for their expressions, which TLC evaluates anew at each
\* use when it evaluates ENABLED; the bound variable of a set holds a value.
With(v, Body(_)) == CHOOSE r \in {Body(w) : w \in {v}} : TRUE

(***************************************************************************)
(* Python string primitives.                                               *)
(***************************************************************************)
\* str.endswith(suffix)
endswith(s, suffix) ==
    /\ Len(s) >= Len(suffix)
    /\ SubSeq(s, Len(s) - Len(suffix) + 1, Len(s)) = suffix

\* str.startswith(prefix)
startswith(s, prefix) ==
    /\ Len(s) >= Len(prefix)
    /\ SubSeq(s, 1, Len(prefix)) = prefix

\* the position of the first occurrence of the one-character sep in s at or
\* after position i, or 0 when there is none
RECURSIVE find(_, _, _)
find(s, sep, i) ==
    IF i > Len(s) THEN 0
    ELSE IF SubSeq(s, i, i) = sep THEN i
    ELSE find(s, sep, i + 1)

\* str.split(sep) for a one-character separator: always at least one piece
RECURSIVE split(_, _)
split(s, sep) ==
    With(find(s, sep, 1), LAMBDA p :
        IF p = 0 THEN <<s>>
        ELSE <<SubSeq(s, 1, p - 1)>>
             \o With(SubSeq(s, p + 1, Len(s)), LAMBDA rest : split(rest, sep)))

\* the characters str.strip() removes, those for which str.isspace() holds:
\* blank, tab, newline, carriage return, form feed, and, written here as
\* the characters themselves, the vertical tab (0x0b), the separators 0x1c
\* to 0x1f, the next line (U+0085), the no-break space (U+00A0) and the
\* ogham space mark (U+1680).  The other spaces of Unicode (U+2000 to
\* U+200A, U+2028, U+2029, U+202F, U+205F, U+3000) cannot be written in a
\* TLA+ string, so no string of the model holds one.
Whitespace ==
    {" ", "\t", "\n", "\r", "\f", "", "", "", "", "",
     "", " ", " "}

\* str.lstrip(), str.rstrip() and str.strip() without argument
RECURSIVE lstrip(_)
lstrip(s) ==
    IF Len(s) > 0 /\ SubSeq(s, 1, 1) \in Whitespace
    THEN lstrip(SubSeq(s, 2, Len(s)))
    ELSE s

RECURSIVE rstrip(_)
rstrip(s) ==
    IF Len(s) > 0 /\ SubSeq(s, Len(s), Len(s)) \in Whitespace
    THEN rstrip(SubSeq(s, 1, Len(s) - 1))
    ELSE s

strip(s) == rstrip(lstrip(s))

\* sep.join(parts)
RECURSIVE join(_, _)
join(sep, parts) ==
    IF Len(parts) = 0 THEN ""
    ELSE IF Len(parts) = 1 THEN parts[1]
    ELSE parts[1] \o sep \o join(sep, Tail(parts))

\* the concatenation of a sequence of sequences
RECURSIVE Flatten(_)
Flatten(ss) ==
    IF Len(ss) = 0 THEN <<>> ELSE Head(ss) \o Flatten(Tail(ss))

(***************************************************************************)
(* The environment: the working directory, the directory tree, the search  *)
(* path and the pylintrc next to the program.                              *)
(***************************************************************************)
\* os.getcwd()
cwd == "/w"

\* the status the shell returns for a command it cannot find on the search
\* path or may not execute
COMMAND_NOT_FOUND == 127

\* os.path.sep
sep == "/"

\* A file system maps the absolute path of each directory to its listing.
\* FS1: /w holds a.py, b.txt and d; d holds c.py, n.txt and s; s holds e.py.
FS1 ==
    [p \in {"/", "/w", "/w/d", "/w/d/s"} |->
        IF p = "/" THEN [dirs |-> <<"w">>, files |-> <<>>]
        ELSE IF p = "/w" THEN [dirs |-> <<"d">>, files |-> <<"a.py", "b.txt">>]
        ELSE IF p = "/w/d" THEN [dirs |-> <<"s">>, files |-> <<"c.py", "n.txt">>]
        ELSE [dirs |-> <<>>, files |-> <<"e.py">>]]

\* FS2: /w holds b.txt, a plain file named pylint3, the directory a.py and
\* the empty directory d; the directory a.py holds m.py.
FS2 ==
    [p \in {"/", "/w", "/w/a.py", "/w/d"} |->
        IF p = "/" THEN [dirs |-> <<"w">>, files |-> <<>>]
        ELSE IF p = "/w" THEN [dirs |-> <<"a.py", "d">>, files |-> <<"b.txt", "pylint3">>]
        ELSE IF p = "/w/a.py" THEN [dirs |-> <<>>, files |-> <<"m.py">>]
        ELSE [dirs |-> <<>>, files |-> <<>>]]

FileSystems == {FS1, FS2}

\* the exit statuses the tools may return: 0 for success; pylint's non-zero
\* statuses are bit masks (2: an error message was issued), pycodestyle's is 1
PylintStatuses == {0, 2}
PycodestyleStatuses == {0, 1}

\* the process exit status the operating system keeps of sys.exit(n)
ExitStatus(n) == n % 256

\* os.path.join(a, b) for a relative b
os_path_join(a, b) ==
    IF a = "" \/ endswith(a, sep) THEN a \o b ELSE a \o sep \o b

\* the absolute path of the directory with the components comps below the root
KeyOf(comps) == sep \o join(sep, comps)

\* The path lookup of the operating system, component by component, from
\* the directory at (a sequence of components below the root): an empty
\* component (a doubled or trailing '/') and '.' stay, '..' goes to the
\* parent (the root is its own parent), a name goes to the subdirectory or
\* the file of that name.  Nothing is below a file, not even '' or '.'.
RECURSIVE Lookup(_, _, _, _)
Lookup(f, kind, at, rest) ==
    IF Len(rest) = 0 THEN [kind |-> kind, at |-> at]
    ELSE IF kind # "dir" THEN [kind |-> "none", at |-> <<>>]
    ELSE With(<<Head(rest), f[KeyOf(at)], Tail(rest)>>, LAMBDA here :
            LET c == here[1]
                listing == here[2]
                Below(k, to) == With(to, LAMBDA t : Lookup(f, k, t, here[3]))
            IN  IF c = "" \/ c = "." THEN Below("dir", at)
                ELSE IF c = ".."
                THEN Below("dir", IF Len(at) = 0 THEN at
                                  ELSE SubSeq(at, 1, Len(at) - 1))
                ELSE IF \E i \in 1..Len(listing.dirs) : listing.dirs[i] = c
                THEN Below("dir", Append(at, c))
                ELSE IF \E i \in 1..Len(listing.files) : listing.files[i] = c
                THEN Below("file", Append(at, c))
                ELSE [kind |-> "none", at |-> <<>>])

\* what the path p names: a directory, a file or nothing, and where.  An
\* absolute path starts at the root, any other at the working directory;
\* the empty path names nothing.
Resolve(f, p) ==
    IF p = "" THEN [kind |-> "none", at |-> <<>>]
    ELSE With(<<IF startswith(p, sep) THEN <<>> ELSE Tail(split(cwd, sep)),
                split(p, sep)>>,
              LAMBDA from : Lookup(f, "dir", from[1], from[2]))

\* os.path.isdir(p)
isdir(f, p) == Resolve(f, p).kind = "dir"

\* os.path.isfile(p)
isfile(f, p) == Resolve(f, p).kind = "file"

\* os.walk(top): top-down, a directory before its subdirectories, the
\* subdirectories in listing order; nothing when top is no directory
RECURSIVE walk(_, _)
walk(f, top) ==
    With(Resolve(f, top), LAMBDA at :
        IF at.kind # "dir" THEN <<>>
        ELSE With(f[KeyOf(at.at)], LAMBDA listing :
                <<[dpath |-> top, dirs |-> listing.dirs, files |-> listing.files]>>
                \o Flatten([i \in 1..Len(listing.dirs) |->
                       With(os_path_join(top, listing.dirs[i]),
                            LAMBDA below : walk(f, below))])))

(***************************************************************************)
(* check(): the file list (lines 111-126).                                 *)
(***************************************************************************)
\* for myfile in files: if myfile.endswith('.py'): append dpath + sep + myfile
RECURSIVE PyFilesIn(_, _)
PyFilesIn(dpath, files) ==
    IF Len(files) = 0 THEN <<>>
    ELSE (IF endswith(Head(files), ".py")
          THEN <<dpath \o sep \o Head(files)>> ELSE <<>>)
         \o PyFilesIn(dpath, Tail(files))

\* for dpath, _, files in os.walk(top): ...
WalkPyFiles(f, top) ==
    With(walk(f, top), LAMBDA w :
        Flatten([i \in 1..Len(w) |-> PyFilesIn(w[i].dpath, w[i].files)]))

\* a variant of Contribution that leaves out the test of the suffix of a
\* candidate file
Contribution_NoSuffixTest(f, thisfile) ==
    IF isfile(f, thisfile) THEN <<thisfile>>
    ELSE IF isdir(f, thisfile) THEN WalkPyFiles(f, thisfile)
    ELSE <<>>

\* what one candidate path adds to the file list (lines 120-126)
Contribution(f, thisfile) ==
    IF isfile(f, thisfile) /\ endswith(thisfile, ".py") THEN <<thisfile>>
    ELSE IF isdir(f, thisfile) THEN WalkPyFiles(f, thisfile)
    ELSE <<>>

\* the paths argument of check(): None or a list
None == [isNone |-> TRUE, val |-> <<>>]
Some(v) == [isNone |-> FALSE, val |-> v]

\* the file list check() builds (lines 111-126)
FileList(f, paths) ==
    IF paths.isNone THEN WalkPyFiles(f, cwd)
    ELSE Flatten([i \in 1..Len(paths.val) |-> Contribution(f, paths.val[i])])

(***************************************************************************)
(* The warning registry IGNORE_PEP (lines 56-68): a dict, kept here as the *)
(* sequence of its items in insertion order.                               *)
(***************************************************************************)
IGNORE_PEP_DEFAULT ==
    << [key |-> "E121", desc |-> "indentation is not a multiple of four"],
       [key |-> "E122", desc |-> "missing indentation or outdented"],
       [key |-> "E123", desc |-> "closing bracket does not match indentation of opening brackets line"],
       [key |-> "E125", desc |-> "continuation line does not distinguish itself from next logical line"],
       [key |-> "E126", desc |-> "over-indented for hanging indent"],
       [key |-> "E127", desc |-> "over-indented for visual indent"],
       [key |-> "E128", desc |-> "continuation line under-indented for visual indent"],
       [key |-> "E302", desc |-> "expected 2 blank lines, found %d"],
       [key |-> "E501", desc |-> "line too long (%d > %d characters)"],
       [key |-> "W391", desc |-> "blank line at end of file"] >>

\* dict.keys(), in insertion order
keys(reg) == [i \in 1..Len(reg) |-> reg[i].key]

\* k in dict
has_key(reg, k) == \E i \in 1..Len(reg) : reg[i].key = k

\* the dict after dict.pop(k) of a present key
pop(reg, k) == SelectSeq(reg, LAMBDA e : e.key # k)

\* the value of an option as argparse stores it: a bool or a str
PyBool(b) == [type |-> "bool", val |-> b]
PyStr(s) == [type |-> "str", val |-> s]

\* the truth value Python's `if v:` gives a bool or a str
truthy(v) == IF v.type = "bool" THEN v.val ELSE Len(v.val) > 0

\* the name of the pylint executable under Python 3 (lines 29-32)
PYLINT == "pylint3"

\* IMPORT_ERROR_MSG (lines 34-51), abridged to its first line
IMPORT_ERROR_MSG == "pylint and/or pycodestyle not available"

\* os.path.dirname(__file__), the folder of the program (line 99)
folder == "/p"

(***************************************************************************)
(* list_pep_keys() (lines 156-163): what it prints; it then exits with 0.  *)
(***************************************************************************)
ListPepKeysOutput(reg) ==
    <<"These are the PEP Keys that are being ignored:">>
    \o [i \in 1..Len(reg) |-> reg[i].key \o ": " \o reg[i].desc]

(***************************************************************************)
(* The loop of the remove step (lines 202-209) over a list of stripped     *)
(* keys: each present key is popped; at the first absent key the loop      *)
(* prints the error, calls list_pep_keys(), and list_pep_keys() exits the  *)
(* process with 0, so that the sys.exit(1) of line 209 is never reached.   *)
(***************************************************************************)
RECURSIVE RemoveLoop(_, _, _)
RemoveLoop(keylist, reg, out) ==
    IF Len(keylist) = 0
    THEN [reg |-> reg, out |-> out, exits |-> FALSE, code |-> 0]
    ELSE LET k == Head(keylist)
         IN  IF has_key(reg, k)
             THEN RemoveLoop(Tail(keylist), pop(reg, k),
                             out \o <<"Removing key:" \o k \o " from PEP ignore list">>)
             ELSE [reg |-> reg,
                   out |-> out \o <<"Error, key " \o k \o " not found, these are the keys:">>
                               \o ListPepKeysOutput(reg),
                   exits |-> TRUE, code |-> 0]

\* keylist = [k.strip() for k in keystr.split(',')] (line 201)
KeyList(keystr) ==
    LET parts == split(keystr, ",")
    IN  [i \in 1..Len(parts) |-> strip(parts[i])]

(***************************************************************************)
(* The command line.                                                       *)
(***************************************************************************)
\* the paths a command line may name: a.py (a file in FS1, a directory in
\* FS2), a file of another suffix, a directory, a directory under it and a
\* path that does not exist
PathWords == {"a.py", "b.txt", "d", "d/s", "x.py"}

\* the key lists a user may write after -r, as USAGE_MSG documents it
KeyLists == {"E501,W391", "Z999", "E501, Z999", "E127,\t E501"}

RECURSIVE SeqsUpTo(_, _)
SeqsUpTo(S, n) ==
    IF n = 0 THEN {<<>>}
    ELSE LET shorter == SeqsUpTo(S, n - 1)
         IN  shorter \cup {Append(q, w) : q \in shorter, w \in S}

\* command lines that ask for the help, that argparse rejects, that join or
\* abbreviate options, that use '--', and that name paths the operating
\* system has to normalise
SpecialCommandLines ==
    { <<"-h">>, <<"-l", "--help">>, <<"a.py", "-x", "-h">>, <<"-x">>,
      <<"a.py", "-l", "d">>, <<"-l", "a.py", "-r", "d">>, <<"-r=E501">>,
      <<"--list=x">>, <<"-lr", "Z999">>, <<"--li", "a.py">>, <<"--rem">>,
      <<"--", "-l">>, <<"-", "-1">>, <<"-l", "-۳">>, <<"-߃.۵", "a.py">>,
      <<".", "d/">>, <<"./a.py", "d/../d//s/">>, <<"..", "x/../d">>,
      <<"a.py/", "/w/d/s/e.py">> }

\* the command lines: [-l] [-r [keylist]] path..., and the special ones
CommandLines ==
    {(IF l THEN <<"-l">> ELSE <<>>) \o (IF r THEN <<"-r">> \o k ELSE <<>>) \o ws :
        l \in BOOLEAN, r \in BOOLEAN,
        k \in {<<>>} \cup {<<w>> : w \in KeyLists},
        ws \in SeqsUpTo(PathWords, MaxArgs)}
    \cup SpecialCommandLines

(***************************************************************************)
(* parser.parse_args() (lines 179-194) for the parser main() builds: the   *)
(* options -h/--help (added by argparse), -l/--list and -r/--remove, both  *)
(* store_true, and the positional paths with nargs='*'.                    *)
(***************************************************************************)
\* the option strings of the parser, in the order they are registered
OptionStrings == <<"-h", "--help", "-l", "--list", "-r", "--remove">>

IsOptionString(w) == \E i \in 1..Len(OptionStrings) : OptionStrings[i] = w

\* the action an option string selects
ActionOf(o) ==
    IF o \in {"-h", "--help"} THEN "help"
    ELSE IF o \in {"-l", "--list"} THEN "list"
    ELSE "remove"

\* the explicit argument of an option: none, or a string (possibly empty)
NoArg == [has |-> FALSE, val |-> ""]
Arg(v) == [has |-> TRUE, val |-> v]

\* the characters the \d of a Python str pattern matches, the decimal
\* digits of Unicode (category Nd), written as the characters themselves:
\* the ten digits, zero to nine, of each of the 19 scripts whose digits a
\* TLA+ string can hold, the ASCII digits first.  The digits of the other
\* 47 scripts cannot be written in a TLA+ string, so no string of the
\* model holds one.
DecimalDigits ==
    {"0", "1", "2", "3", "4", "5", "6", "7", "8", "9",
      "۰", "۱", "۲", "۳", "۴", "۵", "۶", "۷", "۸", "۹",
      "߀", "߁", "߂", "߃", "߄", "߅", "߆", "߇", "߈", "߉",
      "০", "১", "২", "৩", "৪", "৫", "৬", "৭", "৮", "৯",
      "૦", "૧", "૨", "૩", "૪", "૫", "૬", "૭", "૮", "૯",
      "௦", "௧", "௨", "௩", "௪", "௫", "௬", "௭", "௮", "௯",
      "೦", "೧", "೨", "೩", "೪", "೫", "೬", "೭", "೮", "೯",
      "෦", "෧", "෨", "෩", "෪", "෫", "෬", "෭", "෮", "෯",
      "໐", "໑", "໒", "໓", "໔", "໕", "໖", "໗", "໘", "໙",
      "႐", "႑", "႒", "႓", "႔", "႕", "႖", "႗", "႘", "႙",
      "០", "១", "២", "៣", "៤", "៥", "៦", "៧", "៨", "៩",
      "᧐", "᧑", "᧒", "᧓", "᧔", "᧕", "᧖", "᧗", "᧘", "᧙",
      "᪀", "᪁", "᪂", "᪃", "᪄", "᪅", "᪆", "᪇", "᪈", "᪉",
      "᪐", "᪑", "᪒", "᪓", "᪔", "᪕", "᪖", "᪗", "᪘", "᪙",
      "᮰", "᮱", "᮲", "᮳", "᮴", "᮵", "᮶", "᮷", "᮸", "᮹",
      "꣐", "꣑", "꣒", "꣓", "꣔", "꣕", "꣖", "꣗", "꣘", "꣙",
      "꧐", "꧑", "꧒", "꧓", "꧔", "꧕", "꧖", "꧗", "꧘", "꧙",
      "꧰", "꧱", "꧲", "꧳", "꧴", "꧵", "꧶", "꧷", "꧸", "꧹",
      "꯰", "꯱", "꯲", "꯳", "꯴", "꯵", "꯶", "꯷", "꯸", "꯹"}

\* every character of s is a decimal digit
AllDigits(s) == \A i \in 1..Len(s) : SubSeq(s, i, i) \in DecimalDigits

\* argparse's test for a negative number, '^-\d+$|^-\d*\.\d+$', where $
\* also matches before a final newline
LooksNegative(w) ==
    LET Matches(x) ==
            \/ Len(x) >= 1 /\ AllDigits(x)
            \/ LET dot == find(x, ".", 1)
               IN  /\ dot > 0
                   /\ AllDigits(SubSeq(x, 1, dot - 1))
                   /\ Len(x) > dot
                   /\ AllDigits(SubSeq(x, dot + 1, Len(x)))
        body == SubSeq(w, 2, Len(w))
    IN  /\ startswith(w, "-")
        /\ \/ Matches(body)
           \/ endswith(body, "\n") /\ Matches(SubSeq(body, 1, Len(body) - 1))

\* _get_option_tuples: the options a word may abbreviate.  A word with two
\* dashes is a prefix of a long option, split at '='; a word with one dash
\* is a short option followed by its explicit argument.
OptionTuples(w) ==
    LET eq == find(w, "=", 1)
        long == SubSeq(w, 2, 2) = "-"
        prefix == IF long /\ eq > 0 THEN SubSeq(w, 1, eq - 1) ELSE w
        explicit == IF long /\ eq > 0 THEN Arg(SubSeq(w, eq + 1, Len(w))) ELSE NoArg
        TupleOf(o) ==
            IF long
            THEN IF startswith(o, prefix)
                 THEN <<[kind |-> "O", action |-> ActionOf(o), option |-> o,
                         explicit |-> explicit]>>
                 ELSE <<>>
            ELSE IF o = SubSeq(w, 1, 2)
                 THEN <<[kind |-> "O", action |-> ActionOf(o), option |-> o,
                         explicit |-> Arg(SubSeq(w, 3, Len(w)))]>>
                 ELSE IF startswith(o, prefix)
                 THEN <<[kind |-> "O", action |-> ActionOf(o), option |-> o,
                         explicit |-> NoArg]>>
                 ELSE <<>>
    IN  Flatten([i \in 1..Len(OptionStrings) |-> TupleOf(OptionStrings[i])])

\* a word that is an argument, and the end of the parse by a usage error
Positional == [kind |-> "A", action |-> "none", option |-> "", explicit |-> NoArg]
Ambiguous == [kind |-> "error", action |-> "none", option |-> "", explicit |-> NoArg]

\* _parse_optional: a word is an argument ('A'), an option ('O', known or
\* not) or ambiguous
ParseOptional(w) ==
    IF w = "" THEN Positional
    ELSE IF SubSeq(w, 1, 1) # "-" THEN Positional
    ELSE IF IsOptionString(w)
    THEN [kind |-> "O", action |-> ActionOf(w), option |-> w, explicit |-> NoArg]
    ELSE IF Len(w) = 1 THEN Positional
    ELSE LET eq == find(w, "=", 1)
         IN  IF eq > 0 /\ IsOptionString(SubSeq(w, 1, eq - 1))
             THEN [kind |-> "O", action |-> ActionOf(SubSeq(w, 1, eq - 1)),
                   option |-> SubSeq(w, 1, eq - 1),
                   explicit |-> Arg(SubSeq(w, eq + 1, Len(w)))]
             ELSE With(OptionTuples(w), LAMBDA tuples :
                      IF Len(tuples) > 1 THEN Ambiguous
                      ELSE IF Len(tuples) = 1 THEN tuples[1]
                      ELSE IF LooksNegative(w) THEN Positional
                      ELSE IF find(w, " ", 1) > 0 THEN Positional
                      ELSE [kind |-> "O", action |-> "none", option |-> w,
                            explicit |-> NoArg])

\* the pattern of the command line: every word after the first '--' is an
\* argument, the '--' itself is marked '-'
RECURSIVE Classify(_, _)
Classify(args, afterDashes) ==
    IF Len(args) = 0 THEN <<>>
    ELSE IF afterDashes THEN <<Positional>> \o Classify(Tail(args), TRUE)
    ELSE IF Head(args) = "--"
    THEN <<[kind |-> "-", action |-> "none", option |-> "", explicit |-> NoArg]>>
         \o Classify(Tail(args), TRUE)
    ELSE <<ParseOptional(Head(args))>> \o Classify(Tail(args), FALSE)

\* _get_values: the words given to paths, without the first '--'
RECURSIVE WithoutFirstDashes(_)
WithoutFirstDashes(ws) ==
    IF Len(ws) = 0 THEN <<>>
    ELSE IF Head(ws) = "--" THEN Tail(ws)
    ELSE <<Head(ws)>> \o WithoutFirstDashes(Tail(ws))

\* consume_optional: the actions one option word selects, in order.  A
\* short option that takes no argument passes its explicit argument on as
\* further short options (-lr is -l -r); any other explicit argument is a
\* usage error; an unknown option is left over.
RECURSIVE OptionActions(_, _, _, _)
OptionActions(action, option, explicit, pending) ==
    IF action = "none" THEN [error |-> FALSE, extra |-> TRUE, acts |-> <<>>]
    ELSE IF ~explicit.has
    THEN [error |-> FALSE, extra |-> FALSE, acts |-> Append(pending, action)]
    ELSE IF SubSeq(option, 2, 2) # "-" /\ explicit.val # ""
    THEN LET next == "-" \o SubSeq(explicit.val, 1, 1)
             rest == SubSeq(explicit.val, 2, Len(explicit.val))
         IN  IF IsOptionString(next)
             THEN OptionActions(ActionOf(next), next,
                                IF rest = "" THEN NoArg ELSE Arg(rest),
                                Append(pending, action))
             ELSE [error |-> TRUE, extra |-> FALSE, acts |-> <<>>]
    ELSE [error |-> TRUE, extra |-> FALSE, acts |-> <<>>]

\* the options before any word is read: the defaults of the parser
DefaultOptions == [listpep |-> FALSE, pepkeylist |-> PyBool(FALSE), paths |-> <<>>]

\* the outcomes of the parse: the options, the help (exit 0) or a usage
\* error (exit 2)
Parsed(ns) == [exits |-> FALSE, code |-> 0, options |-> ns]
HelpExit == [exits |-> TRUE, code |-> 0, options |-> DefaultOptions]
UsageError == [exits |-> TRUE, code |-> 2, options |-> DefaultOptions]

\* take_action for the actions of one option word, in order: the help
\* action prints the help and exits at once
RECURSIVE TakeActions(_, _)
TakeActions(acts, ns) ==
    IF Len(acts) = 0 THEN Parsed(ns)
    ELSE IF Head(acts) = "help" THEN HelpExit
    ELSE IF Head(acts) = "list"
    THEN TakeActions(Tail(acts), [ns EXCEPT !.listpep = TRUE])
    ELSE TakeActions(Tail(acts), [ns EXCEPT !.pepkeylist = PyBool(TRUE)])

\* the loop of _parse_known_args from the word i on: the words before the
\* next option go to paths if paths has taken no words yet and are left
\* over otherwise, then the option is consumed; after the last option the
\* remaining words go the same way.  Left-over words are a usage error at
\* the end of the parse.
RECURSIVE ParseFrom(_, _, _, _, _, _)
ParseFrom(args, pattern, i, ns, pathsTaken, extras) ==
    LET later == {j \in i..Len(args) : pattern[j].kind = "O"}
    IN  IF later = {}
        THEN IF ~pathsTaken
             THEN IF extras THEN UsageError
                  ELSE Parsed([ns EXCEPT !.paths =
                                  WithoutFirstDashes(SubSeq(args, i, Len(args)))])
             ELSE IF extras \/ i <= Len(args) THEN UsageError
             ELSE Parsed(ns)
        ELSE With(CHOOSE j \in later : \A k \in later : j <= k, LAMBDA next :
                LET gap == SubSeq(args, i, next - 1)
                    ns1 == IF Len(gap) > 0 /\ ~pathsTaken
                           THEN [ns EXCEPT !.paths = WithoutFirstDashes(gap)]
                           ELSE ns
                    extras1 == extras \/ (Len(gap) > 0 /\ pathsTaken)
                    taken1 == pathsTaken \/ Len(gap) > 0
                IN  With(OptionActions(pattern[next].action, pattern[next].option,
                                       pattern[next].explicit, <<>>), LAMBDA o :
                        IF o.error THEN UsageError
                        ELSE With(<<TakeActions(o.acts, ns1), taken1,
                                    extras1 \/ o.extra>>, LAMBDA r :
                                IF r[1].exits THEN r[1]
                                ELSE ParseFrom(args, pattern, next + 1,
                                               r[1].options, r[2], r[3]))))

\* parser.parse_args(): -l and -r are both store_true flags, so
\* options.pepkeylist is a bool and the word after -r is a path
parse_args(args) ==
    With(Classify(args, FALSE), LAMBDA pattern :
        IF \E i \in 1..Len(pattern) : pattern[i].kind = "error" THEN UsageError
        ELSE ParseFrom(args, pattern, 1, DefaultOptions, FALSE, FALSE))

\* the words parse_args() gives to paths, for a command line it accepts
Positionals(args) == parse_args(args).options.paths

(***************************************************************************)
(* The state.                                                              *)
(***************************************************************************)
VARIABLES
    argv,           \* sys.argv[1:]
    fs,             \* the directory tree under the working directory
    path,           \* the tool names of which a file lies on the search path
    executable,     \* those of these files that may be executed
    pylintrc,       \* whether folder/pylintrc is a file
    IGNORE_PEP,     \* the warning registry
    options,        \* the parsed options
    pc,             \* the position of the program
    called,         \* the functions of the program entered so far, in order
    filelist,       \* check(): the file list
    idx,            \* check(): the position of the loop in the file list
    rescount,       \* check(): the failure counter
    calls,          \* the subprocess.call invocations made so far, in order
    results,        \* the statuses these invocations have returned, in order
    stdout,         \* the lines written to standard output
    exitcode,       \* the exit status of the process, -1 while it runs
    exc             \* the exception that ended the process, "None" if none

vars == <<argv, fs, path, executable, pylintrc, IGNORE_PEP, options, pc, called,
          filelist, idx, rescount, calls, results, stdout, exitcode, exc>>

env == <<argv, fs, path, executable, pylintrc>>

Init ==
    /\ argv \in CommandLines
    /\ fs \in FileSystems
    /\ path \in SUBSET {PYLINT, "pycodestyle"}
    /\ executable \in SUBSET path
    /\ pylintrc \in BOOLEAN
    /\ IGNORE_PEP = IGNORE_PEP_DEFAULT
    /\ options = DefaultOptions
    /\ pc = "main"
    /\ called = <<>>
    /\ filelist = <<>>
    /\ idx = 0
    /\ rescount = 0
    /\ calls = <<>>
    /\ results = <<>>
    /\ stdout = <<>>
    /\ exitcode = -1
    /\ exc = "None"

\* sys.exit(n)
Exit(n) ==
    /\ pc' = "exited"
    /\ exitcode' = ExitStatus(n)
    /\ exc' = exc

\* an exception nothing catches: a traceback and exit status 1
Raise(e) ==
    /\ pc' = "exited"
    /\ exitcode' = 1
    /\ exc' = e

(***************************************************************************)
(* main() (lines 176-218).                                                 *)
(***************************************************************************)
\* the first line of the help argparse prints for -h
HELP_TEXT == "usage: checkpy.py [-h] [-l] [-r] [paths ...]"

\* lines 179-194: build the parser and parse the command line.  The parse
\* ends the process itself for -h (the help on standard output, exit 0) and
\* for a command line it rejects (the usage on standard error, exit 2).
ParseArgs ==
    /\ pc = "main"
    /\ called' = Append(called, "main")
    /\ LET r == parse_args(argv)
       IN  IF r.exits
           THEN /\ stdout' = IF r.code = 0 THEN Append(stdout, HELP_TEXT) ELSE stdout
                /\ Exit(r.code)
                /\ UNCHANGED options
           ELSE /\ options' = r.options
                /\ pc' = "list"
                /\ UNCHANGED <<stdout, exitcode, exc>>
    /\ UNCHANGED <<env, IGNORE_PEP, filelist, idx, rescount, calls, results>>

\* a variant of MainList in which list_pep_keys() returns instead of exiting
MainList_NoExit ==
    /\ pc = "list"
    /\ IF options.listpep
       THEN /\ called' = Append(called, "list_pep_keys")
            /\ stdout' = stdout \o ListPepKeysOutput(IGNORE_PEP)
       ELSE UNCHANGED <<called, stdout>>
    /\ pc' = "remove"
    /\ UNCHANGED <<env, IGNORE_PEP, options, filelist, idx, rescount, calls, results,
                   exitcode, exc>>

\* lines 196-197: if options.listpep: list_pep_keys(), which prints the
\* registry and exits with 0
MainList ==
    /\ pc = "list"
    /\ IF options.listpep
       THEN /\ called' = Append(called, "list_pep_keys")
            /\ stdout' = stdout \o ListPepKeysOutput(IGNORE_PEP)
            /\ Exit(0)
       ELSE /\ pc' = "remove"
            /\ UNCHANGED <<called, stdout, exitcode, exc>>
    /\ UNCHANGED <<env, IGNORE_PEP, options, filelist, idx, rescount, calls, results>>

\* lines 199-209: the remove step.  keystr.split(',') of line 201 exists
\* for a str only: for the bool that store_true stores it raises an
\* AttributeError, which nothing catches.
MainRemove ==
    /\ pc = "remove"
    /\ IF ~truthy(options.pepkeylist)
       THEN /\ pc' = "check_sanity"
            /\ UNCHANGED <<IGNORE_PEP, called, stdout, exitcode, exc>>
       ELSE IF options.pepkeylist.type # "str"
       THEN /\ Raise("AttributeError")
            /\ UNCHANGED <<IGNORE_PEP, called, stdout>>
       ELSE LET r == RemoveLoop(KeyList(options.pepkeylist.val), IGNORE_PEP, <<>>)
            IN  /\ IGNORE_PEP' = r.reg
                /\ stdout' = stdout \o r.out
                /\ IF r.exits
                   THEN /\ called' = Append(called, "list_pep_keys")
                        /\ Exit(r.code)
                   ELSE /\ pc' = "check_sanity"
                        /\ UNCHANGED <<called, exitcode, exc>>
    /\ UNCHANGED <<env, options, filelist, idx, rescount, calls, results>>

\* spawn.find_executable(name): the name when a file of that name is in
\* the working directory, else the first file of that name in a directory
\* of the search path; it tests os.path.isfile, not the permission
find_executable(name) == isfile(fs, name) \/ name \in path

\* the statuses subprocess.call(tool ..., shell=True) may return: the
\* shell runs the file of that name on the search path if it may execute
\* it; the working directory is not searched
ShellStatuses(tool, statuses) ==
    IF tool \in executable THEN statuses ELSE {COMMAND_NOT_FOUND}

\* line 211 and check_sanity() (lines 166-173)
CheckSanity ==
    /\ pc = "check_sanity"
    /\ called' = Append(called, "check_sanity")
    /\ IF ~find_executable(PYLINT) \/ ~find_executable("pycodestyle")
       THEN /\ stdout' = Append(stdout, IMPORT_ERROR_MSG)
            /\ Exit(1)
       ELSE /\ pc' = "check"
            /\ UNCHANGED <<stdout, exitcode, exc>>
    /\ UNCHANGED <<env, IGNORE_PEP, options, filelist, idx, rescount, calls, results>>

(***************************************************************************)
(* check() (lines 96-153).                                                 *)
(***************************************************************************)
\* lines 99-104: the pylint command
mypylint ==
    IF pylintrc
    THEN PYLINT \o " --rcfile=\"" \o os_path_join(folder, "pylintrc") \o "\""
    ELSE PYLINT \o " "

\* line 106: the pycodestyle command
mypycodestyle ==
    "pycodestyle --ignore=" \o join(",", keys(IGNORE_PEP)) \o " --statistics "

\* lines 213-216 of main() and lines 99-128 of check(): check() is called
\* without paths when no path was given; it builds the file list and sets
\* the counter to 0
CheckStart ==
    /\ pc = "check"
    /\ called' = Append(called, "check")
    /\ filelist' = FileList(fs, IF Len(options.paths) = 0 THEN None
                                ELSE Some(options.paths))
    /\ rescount' = 0
    /\ idx' = 1
    /\ pc' = "loop"
    /\ UNCHANGED <<env, IGNORE_PEP, options, calls, results, stdout, exitcode, exc>>

\* lines 129-130: the loop takes the next file and resets the counter
LoopNext ==
    /\ pc = "loop"
    /\ idx <= Len(filelist)
    /\ rescount' = 0
    /\ pc' = "pylint"
    /\ UNCHANGED <<env, IGNORE_PEP, options, called, filelist, idx, calls,
                   results, stdout, exitcode, exc>>

\* the status line of a tool
StatusLine(tool, res) == tool \o ": " \o (IF res = 0 THEN "SUCCESS" ELSE "FAILED")

\* lines 131-133: write and flush the start line, then hand the pylint
\* command to the shell and wait for it
StartPylint ==
    /\ pc = "pylint"
    /\ LET myfile == filelist[idx]
       IN  /\ stdout' = Append(stdout,
                               "starting pylint, as " \o mypylint \o " " \o myfile)
           /\ calls' = Append(calls, [tool |-> "pylint", file |-> myfile,
                                      cmd |-> mypylint \o " " \o myfile])
    /\ pc' = "pylint-wait"
    /\ UNCHANGED <<env, IGNORE_PEP, options, called, filelist, idx, rescount,
                   results, exitcode, exc>>

\* a variant of PylintReturns in which a failure of pylint ends the loop
PylintReturns_StopOnFailure ==
    /\ pc = "pylint-wait"
    /\ \E res \in ShellStatuses(PYLINT, PylintStatuses) :
        /\ results' = Append(results, res)
        /\ rescount' = IF res = 0 THEN rescount ELSE rescount + 1
        /\ stdout' = Append(stdout, StatusLine("pylint", res))
        /\ IF res = 0
           THEN pc' = "pycodestyle" /\ idx' = idx
           ELSE pc' = "loop" /\ idx' = Len(filelist) + 1
    /\ UNCHANGED <<env, IGNORE_PEP, options, called, filelist, calls,
                   exitcode, exc>>

\* lines 133-140: subprocess.call returns the status of pylint; count a
\* non-zero status and write the status line
PylintReturns ==
    /\ pc = "pylint-wait"
    /\ \E res \in ShellStatuses(PYLINT, PylintStatuses) :
        /\ results' = Append(results, res)
        /\ rescount' = IF res = 0 THEN rescount ELSE rescount + 1
        /\ stdout' = Append(stdout, StatusLine("pylint", res))
    /\ pc' = "pycodestyle"
    /\ UNCHANGED <<env, IGNORE_PEP, options, called, filelist, idx, calls,
                   exitcode, exc>>

\* lines 142-144: write and flush the start line, then hand the
\* pycodestyle command to the shell and wait for it
StartPycodestyle ==
    /\ pc = "pycodestyle"
    /\ LET myfile == filelist[idx]
       IN  /\ stdout' = Append(stdout, "starting pycodestyle, as " \o mypycodestyle)
           /\ calls' = Append(calls, [tool |-> "pycodestyle", file |-> myfile,
                                      cmd |-> mypycodestyle \o " " \o myfile])
    /\ pc' = "pycodestyle-wait"
    /\ UNCHANGED <<env, IGNORE_PEP, options, called, filelist, idx, rescount,
                   results, exitcode, exc>>

\* lines 144-151: subprocess.call returns the status of pycodestyle; count
\* a non-zero status and write the status line; the loop then moves to the
\* next file
PycodestyleReturns ==
    /\ pc = "pycodestyle-wait"
    /\ \E res \in ShellStatuses("pycodestyle", PycodestyleStatuses) :
        /\ results' = Append(results, res)
        /\ rescount' = IF res = 0 THEN rescount ELSE rescount + 1
        /\ stdout' = Append(stdout, StatusLine("pycodestyle", res))
    /\ idx' = idx + 1
    /\ pc' = "loop"
    /\ UNCHANGED <<env, IGNORE_PEP, options, called, filelist, calls,
                   exitcode, exc>>

\* line 153 of check() and line 218 of main(): return rescount; sys.exit(myrc)
CheckReturn ==
    /\ pc = "loop"
    /\ idx > Len(filelist)
    /\ Exit(rescount)
    /\ UNCHANGED <<env, IGNORE_PEP, options, called, filelist, idx, rescount,
                   calls, results, stdout>>

Next ==
    \/ ParseArgs
    \/ MainList
    \/ MainRemove
    \/ CheckSanity
    \/ CheckStart
    \/ LoopNext
    \/ StartPylint
    \/ PylintReturns
    \/ StartPycodestyle
    \/ PycodestyleReturns
    \/ CheckReturn

Spec == Init /\ [][Next]_vars

\* the steps the program takes by itself
ProgramStep ==
    \/ ParseArgs
    \/ MainList
    \/ MainRemove
    \/ CheckSanity
    \/ CheckStart
    \/ LoopNext
    \/ StartPylint
    \/ StartPycodestyle
    \/ CheckReturn

\* The program is sequential: a step it can take by itself it takes.  It
\* waits for a tool without a timeout, and nothing makes a tool exit: the
\* two returns of subprocess.call are under no fairness condition.
LiveSpec == Init /\ [][Next]_vars /\ WF_vars(ProgramStep)

(***************************************************************************)
(* Vocabulary of the properties.                                           *)
(***************************************************************************)
Exited == pc = "exited"

\* the function fn of the program has been entered
Called(fn) == \E i \in 1..Len(called) : called[i] = fn

\* the number of subprocess calls so far that returned a non-zero status
Failures == Cardinality({i \in 1..Len(results) : results[i] # 0})

\* the program waits in subprocess.call for a tool to exit
Waiting == pc \in {"pylint-wait", "pycodestyle-wait"}

\* check() has returned and main() has exited with its result
CheckReturned == Exited /\ Called("check")

\* the command line is accepted and asks to remove the key list written
\* after -r, the first positional word, and not to list
RemoveRequested ==
    LET r == parse_args(argv)
    IN  /\ ~r.exits
        /\ r.options.pepkeylist.val /\ ~r.options.listpep
        /\ Len(r.options.paths) > 0
        /\ r.options.paths[1] \in KeyLists
RemoveArg == KeyList(Positionals(argv)[1])
DefaultKeys == {IGNORE_PEP_DEFAULT[i].key : i \in 1..Len(IGNORE_PEP_DEFAULT)}
RequestedKeys == {RemoveArg[i] : i \in 1..Len(RemoveArg)}

\* C1: when check() has returned, the exit status of the process is the
\* number of tool invocations that failed, over all files and both tools.
C1_ExitIsTotalFailures ==
    CheckReturned => exitcode = ExitStatus(Failures)

\* C2: when check() has returned, its result is zero exactly when no tool
\* failed on any file of the list.
C2_ZeroIffAllPassed ==
    CheckReturned => ((exitcode = 0) <=> (\A i \in 1..Len(results) : results[i] = 0))

\* C3: a run asked to remove a code that is not in the registry prints the
\* remaining keys and exits with 1 by the program's own choice, without the
\* sanity check, without check() and without any tool invocation.
C3_AbsentCodeExitsOne ==
    (Exited /\ RemoveRequested /\ ~(RequestedKeys \subseteq DefaultKeys))
        => /\ exitcode = 1
           /\ exc = "None"
           /\ \E i \in 1..Len(stdout) :
                 stdout[i] = "These are the PEP Keys that are being ignored:"
           /\ calls = <<>>
           /\ ~Called("check_sanity")
           /\ ~Called("check")

\* C4: once the remove step is over, a request of present codes has removed
\* exactly those keys (one entry each), and a request with an absent code
\* has left the registry as it was and has taken the unknown-code exit.
C4_RemoveStepEffect ==
    (RemoveRequested /\ pc \notin {"main", "list", "remove"})
        => IF RequestedKeys \subseteq DefaultKeys
           THEN /\ Len(IGNORE_PEP) = Len(IGNORE_PEP_DEFAULT) - Cardinality(RequestedKeys)
                /\ {IGNORE_PEP[i].key : i \in 1..Len(IGNORE_PEP)}
                      = DefaultKeys \ RequestedKeys
           ELSE /\ IGNORE_PEP = IGNORE_PEP_DEFAULT
                /\ Exited
                /\ ~Called("check_sanity")

\* C5: the registry starts with 11 entries, and the run `-r E501,W391`
\* leaves 9 entries, reports no error and goes on to the sanity check (and,
\* both tools being installed, to the checks).
C5_RemoveScenario ==
    (Exited /\ argv = <<"-r", "E501,W391">>)
        => /\ Len(IGNORE_PEP_DEFAULT) = 11
           /\ Len(IGNORE_PEP) = 9
           /\ exc = "None"
           /\ Called("check_sanity")
           /\ (executable = {PYLINT, "pycodestyle"} => Called("check"))

\* a list option word, -l or --list, is written on the command line before
\* any "--", where the parser reads it as the option
ListWordGiven ==
    \E i \in 1..Len(argv) :
        /\ argv[i] \in {"-l", "--list"}
        /\ \A j \in 1..(i - 1) : argv[j] # "--"

\* C6 as stated: a run given the list option, whatever other options or
\* paths are also given, ends with exit code 0 having printed exactly the
\* registry entries, with the registry as it was, without the sanity check
\* and without a tool invocation.  The parser answers `-l --help` with the
\* help text and `a.py -l d` with a usage error before main() ever looks at
\* the option.
C6_ListWordAlwaysLists ==
    (ListWordGiven /\ Exited)
        => /\ exitcode = 0
           /\ stdout = ListPepKeysOutput(IGNORE_PEP_DEFAULT)
           /\ IGNORE_PEP = IGNORE_PEP_DEFAULT
           /\ calls = <<>>
           /\ ~Called("check_sanity")
           /\ ~Called("check")

\* C6: a run whose command line the parser accepts with the list option
\* set, whatever else the command line holds, never gets past the list
\* step: the registry stays as it was, neither the sanity check nor check()
\* is entered, no tool is invoked, and the process exits with 0 having
\* printed exactly the registry entries.  A run whose command line holds a
\* list option word but is answered by the parser itself exits with the
\* parser's status, 0 after the help text or 2 after a usage error, without
\* listing, without the sanity check and without a tool invocation.
C6_ListTakesPriority ==
    /\ options.listpep
          => /\ pc \in {"list", "exited"}
             /\ IGNORE_PEP = IGNORE_PEP_DEFAULT
             /\ calls = <<>>
             /\ ~Called("check_sanity")
             /\ ~Called("check")
             /\ Exited => /\ exitcode = 0
                          /\ exc = "None"
                          /\ stdout = ListPepKeysOutput(IGNORE_PEP_DEFAULT)
                          /\ called = <<"main", "list_pep_keys">>
    /\ (ListWordGiven /\ parse_args(argv).exits /\ Exited)
          => /\ exitcode = parse_args(argv).code
             /\ exitcode \in {0, 2}
             /\ stdout = (IF exitcode = 0 THEN <<HELP_TEXT>> ELSE <<>>)
             /\ called = <<"main">>
             /\ IGNORE_PEP = IGNORE_PEP_DEFAULT
             /\ calls = <<>>

C6_Witness ==
    /\ Exited
    /\ argv = <<"-l", "-r", "Z999", "a.py">>
    /\ options.listpep /\ options.pepkeylist.val
    /\ options.paths = <<"Z999", "a.py">>
    /\ path = {}
    /\ exitcode = 0
    /\ Len(stdout) = 1 + Len(IGNORE_PEP_DEFAULT)

\* C7: in a run where pylint or pycodestyle is not an executable on the
\* search path no tool is ever invoked and check() is never entered; when
\* such a run reaches the sanity check it prints the installation guidance
\* and exits with 1; and in every run the sanity check has been passed
\* before the first subprocess call.
C7_MissingToolStopsRun ==
    /\ (executable # {PYLINT, "pycodestyle"})
          => /\ calls = <<>>
             /\ ~Called("check")
             /\ pc \notin {"check", "loop", "pylint", "pylint-wait",
                           "pycodestyle", "pycodestyle-wait"}
             /\ Called("check_sanity")
                   => /\ Exited
                      /\ exitcode = 1
                      /\ exc = "None"
                      /\ stdout = <<IMPORT_ERROR_MSG>>
    /\ (calls # <<>>) => called = <<"main", "check_sanity", "check">>

\* C8: every run ends by an exit the program chose, never by an exception
\* that propagates out of main().
C8_NoExceptionEscapes ==
    Exited => exc = "None"

\* the absolute paths of the files under the directory top, at any depth,
\* whose name ends in '.py'
PyUnder(f, top) ==
    LET base == KeyOf(Resolve(f, top).at)
        below == IF endswith(base, sep) THEN base ELSE base \o sep
    IN  UNION {{os_path_join(dir, f[dir].files[i]) :
                   i \in {j \in 1..Len(f[dir].files) : endswith(f[dir].files[j], ".py")}} :
               dir \in {x \in DOMAIN f : x = base \/ startswith(x, below)}}

\* how many entries the candidate c is to add to the file list
ExpectedLen(f, c) ==
    IF isfile(f, c) /\ endswith(c, ".py") THEN 1
    ELSE IF isdir(f, c) THEN Cardinality(PyUnder(f, c))
    ELSE 0

\* where the entries of the i-th candidate start in the file list
RECURSIVE Offset(_, _, _)
Offset(f, cands, i) ==
    IF i = 1 THEN 0
    ELSE Offset(f, cands, i - 1) + ExpectedLen(f, cands[i - 1])

\* how often x occurs in the sequence q
Count(q, x) == Cardinality({i \in 1..Len(q) : q[i] = x})

\* C9: given candidate paths, the file list of check() is, candidate by
\* candidate in argument order: the candidate itself for an existing file
\* ending in '.py'; for a directory, each file under it whose name ends in
\* '.py' once and nothing else; nothing for any other candidate, and no
\* error.  Nothing is de-duplicated: a file is checked as often as it
\* occurs in the list.
C9_FileListIsConcatenation ==
    (Called("check") /\ Len(options.paths) > 0)
        => LET cands == options.paths
               n == Len(cands)
           IN  /\ exc = "None"
               /\ Len(filelist) = Offset(fs, cands, n + 1)
               /\ \A i \in 1..n :
                    LET c == cands[i]
                        seg == SubSeq(filelist, Offset(fs, cands, i) + 1,
                                      Offset(fs, cands, i + 1))
                    IN  IF isfile(fs, c) /\ endswith(c, ".py") THEN seg = <<c>>
                        ELSE IF isdir(fs, c)
                        THEN /\ \A j \in 1..Len(seg) : isfile(fs, seg[j])
                             /\ {KeyOf(Resolve(fs, seg[j]).at) : j \in 1..Len(seg)}
                                   = PyUnder(fs, c)
                             /\ \A j \in 1..Len(seg) : startswith(seg[j], c)
                        ELSE seg = <<>>
               /\ Exited =>
                    \A k \in 1..Len(filelist) :
                        Count([j \in 1..Len(calls) |-> <<calls[j].tool, calls[j].file>>],
                              <<"pylint", filelist[k]>>)
                            = Count(filelist, filelist[k])

C9_Witness ==
    /\ Exited
    /\ fs = FS1
    /\ options.paths = <<"d", "d/s">>
    /\ filelist = <<"d/c.py", "d/s/e.py", "d/s/e.py">>
    /\ Len(calls) = 6
    /\ calls[3].file = "d/s/e.py" /\ calls[5].file = "d/s/e.py"

\* the invocations check() is to make on a file list: for each file in
\* order, pylint and then pycodestyle
ExpectedCalls(fl) ==
    [j \in 1..(2 * Len(fl)) |->
        [tool |-> IF j % 2 = 1 THEN "pylint" ELSE "pycodestyle",
         file |-> fl[(j + 1) \div 2]]]

\* the invocations made so far, without their commands
CallsMade == [j \in 1..Len(calls) |-> [tool |-> calls[j].tool, file |-> calls[j].file]]

\* at every moment the invocations made are the first ones of the expected
\* invocations, as many as the position of the loop says, whatever the
\* statuses returned were, and all of them but the one the program waits
\* for have returned; at the return of check() they are all made
C10_CallsInOrder ==
    Called("check")
        => LET made == IF Exited THEN 2 * Len(filelist)
                       ELSE 2 * (idx - 1)
                            + (IF pc \in {"pylint-wait", "pycodestyle"} THEN 1
                               ELSE IF pc = "pycodestyle-wait" THEN 2 ELSE 0)
           IN  /\ made <= 2 * Len(filelist)
               /\ CallsMade = SubSeq(ExpectedCalls(filelist), 1, made)
               /\ Len(results) = made - (IF Waiting THEN 1 ELSE 0)

\* every tool the program waits for exits
ToolsExit == Waiting ~> ~Waiting

\* C10: a tool failure is not fatal: check() invokes both tools on every
\* entry of the file list, the entries in order and pylint before
\* pycodestyle, whatever the exit statuses, and, the tools exiting, it
\* eventually returns.
C10_FailureIsNotFatal ==
    /\ [](C10_CallsInOrder)
    /\ ToolsExit => ((pc = "check") ~> CheckReturned)

C10_Witness ==
    /\ CheckReturned
    /\ Len(filelist) = 3
    /\ results[1] # 0 /\ results[2] # 0 /\ results[4] # 0
    /\ Len(results) = 6
    /\ CallsMade = ExpectedCalls(filelist)

====
